---- MODULE Spec2Model ----
(***************************************************************************)
(* A model of the cloudvelo storage core: the upload session tracker       *)
(* (package uploads), the cursor pagination engine QueryChan, the retry    *)
(* protected single-document writes, the hunt dispatcher, the bulk indexer *)
(* and the routing of Ingestor.Process.                                    *)
(*                                                                         *)
(* Every component has its own specification over the shared variables;    *)
(* the variables of the components a specification does not run keep the   *)
(* value their Init gives them.                                            *)
(***************************************************************************)
EXTENDS Integers, Sequences, FiniteSets, TLC

(***************************************************************************)
(* Bounds of the model.                                                    *)
(***************************************************************************)
\* the clock runs from 0 to MaxTime
MaxTime == 3
\* SessionTracker objects ever allocated
MaxObj == 3
\* a tracker's count is not pushed beyond MaxCount
MaxCount == 3

\* documents of the static dataset a query matches
MaxDocs == 3
\* the values of the sort field are 1 .. MaxKey
MaxKey == 2
\* page sizes are 1 .. MaxPage
MaxPage == 2

\* the retry wrapper's configured maximum number of attempts
MaxAttempts == 3

\* the longest tenant id, in characters
MaxIdLen == 2

\* the most batches the bulk indexer holds
MaxBatches == 3

\* time.Hour, in clock ticks (one tick is half an hour)
Hour == 2

Sessions == {"s1", "s2"}
Callers == {"c1", "c2"}
NoCaller == "none"

\* a nil *SessionTracker / a session id without an entry in the map
NoTracker == 0
Objects == 1 .. MaxObj

VARIABLES
    now,              \* time.Now()
    session_tracker,  \* UploaderFactory.session_tracker: session id -> object (NoTracker: absent)
    heap,             \* the SessionTracker objects: object -> [session_id, count, age]
    nalloc,           \* how many SessionTracker objects were allocated
    held,             \* the *SessionTracker each caller got from GetTracker and has not returned
    rows,             \* history: per session id, the rows ReturnTracker returned, in lock order
    evicted,          \* history: an entry of the session id was deleted by expireTrackers
    soloOwner,        \* history: the caller that created the session's entry and alone used it since
    soloStart         \* history: Len(rows[session id]) when that entry was created

trackerVars == <<now, session_tracker, heap, nalloc, held, rows, evicted, soloOwner, soloStart>>

VARIABLES
    dataset,       \* the documents the query matches, in the store's sort order
    page_size,     \* QueryChan's page_size
    sort_field,    \* QueryChan's sort_field
    qpc,           \* where QueryChan and its producer goroutine are
    part,          \* the page the producer is emitting
    idx,           \* the producer's position in part
    search_after,  \* the cursor of the next page request
    cancelled,     \* ctx.Done() is closed
    consumer,      \* what the reader of output_chan does
    received,      \* history: the hits the consumer received from output_chan
    nclose,        \* history: how often output_chan was closed
    npages,        \* history: the non-empty pages the store returned
    storeFailed    \* history: a page request was answered with an error

queryVars == <<dataset, page_size, sort_field, qpc, part, idx, search_after, cancelled,
               consumer, received, nclose, npages, storeFailed>>

VARIABLES
    client_set,    \* gElasticClient != nil
    store,         \* the documents of the "persisted" index: document id -> document
    wcall,         \* the SetElasticIndex / UpdateIndex call in progress, inside retry
    last,          \* what the last completed call returned to its caller, with the store's
                   \* answer to its last request, for a write the state stored before the
                   \* call and, for GetHunt, the kind of document read
    written        \* history: the hunt whose successful SetHunt was the last write of the document

storeVars == <<client_set, store, wcall, last, written>>

VARIABLES
    kinds,         \* what each document of the dataset is to json.Unmarshal and protojson
    scan,          \* where ApplyFuncOnHuntsWithOptions is, and the error it returned
    visited        \* history: the hits cb was invoked with and what cb returned

scanVars == <<kinds, scan, visited>>

VARIABLES
    called         \* the call of a function of the store client made, with what it returned

callVars == <<called>>

VARIABLES
    bctx,          \* the ctx given to StartBulkIndexService is cancelled
    bpc,           \* where the shutdown goroutine is
    subctx,        \* the context the goroutine closes the indexer with
    wgcount,       \* the wait group's counter
    pending,       \* the batches of the bulk indexer not flushed yet
    flushable,     \* the store takes the indexer's batches
    waiter         \* where the owner of the wait group is

bulkVars == <<bctx, bpc, subctx, wgcount, pending, flushable, waiter>>

vars == <<trackerVars, queryVars, storeVars, scanVars, callVars, bulkVars>>

(***************************************************************************)
(* package services: QueryChan, the cursor pagination engine               *)
(***************************************************************************)
\* a document without the sort field
NoKey == 0
\* const NoSortField = ""
NoSortField == ""
SortFields == {NoSortField, "hunt_id"}

Min(a, b) == IF a < b THEN a ELSE b

\* the store's ascending sort order, documents without the field last
KeyLE(a, b) == b = NoKey \/ (a # NoKey /\ a <= b)

\* the datasets of n documents, in the store's sort order; a document is
\* [id, key], id its position
Datasets(n) ==
    {ds \in [1 .. n -> [id : 1 .. n, key : 0 .. MaxKey]] :
        /\ \A i \in 1 .. n : ds[i].id = i
        /\ \A i \in 1 .. n - 1 : KeyLE(ds[i].key, ds[i + 1].key)}

\* "search_after": [v] keeps the documents that sort strictly after v
SortsAfter(key, after) == key = NoKey \/ key > after

\* the store's answer to a page request: the first size hits, after the cursor
StorePage(ds, size, has_after, after) ==
    LET hits == SelectSeq(ds, LAMBDA d : ~has_after \/ SortsAfter(d.key, after))
    IN SubSeq(hits, 1, Min(size, Len(hits)))

\* a producer that reads the cursor from the hit whatever sort_field is
HasSortField_AnyField(field, doc) == doc.key # NoKey

\* row.Get(sort_field) of a hit: is the field present
HasSortField(field, doc) == field # NoSortField /\ doc.key # NoKey

\* a producer that does not stop at an empty page
PageEndsStream_Never(pg) == FALSE

\* len(part) == 0 ends the stream
PageEndsStream(pg) == Len(pg) = 0

\* a select without the case <-ctx.Done()
CanObserveDone_Never(done) == FALSE

\* the select's case <-ctx.Done() can be taken
CanObserveDone(done) == done

\* a channel with a buffer: a send goes through without a receiver
CanSend_Buffered(reader) == TRUE

\* output_chan := make(chan json.RawMessage): a send on the unbuffered channel
\* goes through when the consumer receives
CanSend(reader) == reader = "reading"

\* the hit the producer offers on output_chan
OfferedHit(pg, i) == pg[i]

\* QueryChan up to the start of the goroutine: the first page request
QueryChanCall ==
    /\ qpc = "call"
    /\ \E answer \in {"ok", "error"} :
          IF answer = "error"
          THEN /\ qpc' = "failed"
               /\ storeFailed' = TRUE
               /\ UNCHANGED <<part, npages>>
          ELSE /\ ~cancelled
               /\ qpc' = "loop"
               /\ part' = StorePage(dataset, page_size, FALSE, NoKey)
               /\ npages' = IF Len(part') > 0 THEN npages + 1 ELSE npages
               /\ UNCHANGED storeFailed
    /\ UNCHANGED <<dataset, page_size, sort_field, idx, search_after, cancelled,
                   consumer, received, nclose>>

\* the top of the producer's for loop (ranging over an empty page emits nothing)
ProducerLoop ==
    /\ qpc = "loop"
    /\ IF PageEndsStream(part)
       THEN qpc' = "closed" /\ nclose' = nclose + 1 /\ UNCHANGED idx
       ELSE IF Len(part) = 0
       THEN qpc' = "query" /\ UNCHANGED <<idx, nclose>>
       ELSE qpc' = "select" /\ idx' = 1 /\ UNCHANGED nclose
    /\ UNCHANGED <<dataset, page_size, sort_field, part, search_after, cancelled,
                   consumer, received, npages, storeFailed>>

\* select: case <-ctx.Done(): return
ProducerObserveDone ==
    /\ qpc = "select"
    /\ CanObserveDone(cancelled)
    /\ qpc' = "closed"
    /\ nclose' = nclose + 1
    /\ UNCHANGED <<dataset, page_size, sort_field, part, idx, search_after, cancelled,
                   consumer, received, npages, storeFailed>>

\* select: case output_chan <- p, received by the consumer; after the last hit
\* of the page the producer reads the cursor from it
ProducerEmit ==
    /\ qpc = "select"
    /\ CanSend(consumer)
    /\ received' = IF consumer = "reading" THEN Append(received, OfferedHit(part, idx))
                   ELSE received
    /\ IF idx < Len(part)
       THEN /\ idx' = idx + 1
            /\ UNCHANGED <<qpc, search_after, nclose>>
       ELSE IF HasSortField(sort_field, part[idx])
       THEN /\ search_after' = part[idx].key
            /\ qpc' = "query"
            /\ UNCHANGED <<idx, nclose>>
       ELSE /\ qpc' = "closed"
            /\ nclose' = nclose + 1
            /\ UNCHANGED <<idx, search_after>>
    /\ UNCHANGED <<dataset, page_size, sort_field, part, cancelled, consumer,
                   npages, storeFailed>>

\* the next page request, with search_after
ProducerNextPage ==
    /\ qpc = "query"
    /\ \E answer \in {"ok", "error"} :
          IF answer = "error"
          THEN /\ qpc' = "closed"
               /\ nclose' = nclose + 1
               /\ storeFailed' = TRUE
               /\ UNCHANGED <<part, npages>>
          ELSE /\ ~cancelled
               /\ qpc' = "loop"
               /\ part' = StorePage(dataset, page_size, TRUE, search_after)
               /\ npages' = IF Len(part') > 0 THEN npages + 1 ELSE npages
               /\ UNCHANGED <<nclose, storeFailed>>
    /\ UNCHANGED <<dataset, page_size, sort_field, idx, search_after, cancelled,
                   consumer, received>>

\* the caller cancels ctx
Cancel ==
    /\ ~cancelled
    /\ cancelled' = TRUE
    /\ UNCHANGED <<dataset, page_size, sort_field, qpc, part, idx, search_after,
                   consumer, received, nclose, npages, storeFailed>>

\* the consumer stops reading output_chan
ConsumerStop ==
    /\ consumer = "reading"
    /\ qpc \notin {"call", "failed"}
    /\ consumer' = "stopped"
    /\ UNCHANGED <<dataset, page_size, sort_field, qpc, part, idx, search_after,
                   cancelled, received, nclose, npages, storeFailed>>

QueryStart ==
    /\ qpc = "call"
    /\ part = <<>>
    /\ idx = 0
    /\ search_after = NoKey
    /\ cancelled = FALSE
    /\ consumer = "reading"
    /\ received = <<>>
    /\ nclose = 0
    /\ npages = 0
    /\ storeFailed = FALSE

QueryInit ==
    /\ \E n \in 0 .. MaxDocs : dataset \in Datasets(n)
    /\ page_size \in 1 .. MaxPage
    /\ sort_field \in SortFields
    /\ QueryStart

\* the query variables of a specification that runs no query
QueryParked ==
    /\ dataset = <<>>
    /\ page_size = 1
    /\ sort_field = NoSortField
    /\ QueryStart

(***************************************************************************)
(* package services: the document store client and the retried writes      *)
(***************************************************************************)
\* what the store can do with one request: answer it (ok), answer it with an
\* error response whose body parses (store_error) or does not (bad_error_body),
\* fail before the request is taken (transport_error), or take the request and
\* lose the response (response_lost)
WriteAnswers == {"ok", "store_error", "bad_error_body", "transport_error", "response_lost"}
ReadAnswers == {"ok", "store_error", "bad_error_body", "transport_error"}

\* the store carried the write out
Applied(answer) == answer \in {"ok", "response_lost"}

\* GetElasticClient: the error it returns
GetElasticClient(client) == IF client THEN "nil" ELSE "NotInitialized"

\* makeElasticError
makeElasticError == "ElasticError"

\* a write that takes every response for a success
ResponseError_IgnoresIsError(answer) ==
    CASE answer \in {"ok", "store_error", "bad_error_body"} -> "nil"
      [] answer \in {"transport_error", "response_lost"} -> "TransportError"

\* the error of one request, after es_req.Do, ioutil.ReadAll, res.IsError
\* and response.UnmarshalJSON
ResponseError(answer) ==
    CASE answer = "ok" -> "nil"
      [] answer \in {"transport_error", "response_lost"} -> "TransportError"
      [] answer = "bad_error_body" -> "ParseError"
      [] answer = "store_error" -> makeElasticError

\* _SetElasticIndex: the error of one attempt
_SetElasticIndex(client, answer) ==
    IF GetElasticClient(client) # "nil" THEN GetElasticClient(client)
    ELSE ResponseError(answer)

\* _UpdateIndex: the error of one attempt
_UpdateIndex(client, answer) ==
    IF GetElasticClient(client) # "nil" THEN GetElasticClient(client)
    ELSE ResponseError(answer)

\* retry: after the attempt numbered attempts returned err, is there another one
retry(err, attempts) ==
    /\ err # "nil"
    /\ err # "NotInitialized"
    /\ attempts < MaxAttempts

(***************************************************************************)
(* package hunt_dispatcher                                                 *)
(***************************************************************************)
\* api_proto.Hunt_State
HuntStates == {"UNSET", "PAUSED", "RUNNING", "STOPPED", "ARCHIVED"}

\* a nil *api_proto.HuntStats
NoStats == [nil |-> TRUE]
\* api_proto.HuntStats: the three counters and, standing for its other fields, stopped
HuntStatsValues ==
    {[scheduled |-> 3, results |-> 2, errors |-> 1, stopped |-> TRUE, downloads |-> 0],
     [scheduled |-> 0, results |-> 0, errors |-> 0, stopped |-> FALSE, downloads |-> 0]}

\* the hunt ids SetHunt is called with, the empty one among them
HuntIds == {"", "H.1"}
\* the document ids of the index; nothing is ever written under H.2
DocIds == {"H.1", "H.2"}
WrittenIds == HuntIds \ {""}
Creators == {"alice", "bob"}
\* the states UpdateIndex is asked to set
UpdateStates == {"STOPPED", "ARCHIVED"}

\* api_proto.Hunt
Hunts == [hunt_id : HuntIds, state : HuntStates, stats : HuntStatsValues \cup {NoStats},
          creator : Creators]

NoHunt == [nil |-> TRUE]

\* a field that a JSON object does not carry, and one that it carries
Absent == [absent |-> TRUE]
Field(value) == [v |-> value]

\* protojson.Marshal(hunt): a field with its zero value is left out
protojsonMarshal(hunt) ==
    [hunt_id |-> IF hunt.hunt_id = "" THEN Absent ELSE Field(hunt.hunt_id),
     state   |-> IF hunt.state = "UNSET" THEN Absent ELSE Field(hunt.state),
     creator |-> IF hunt.creator = "" THEN Absent ELSE Field(hunt.creator),
     stats   |-> IF hunt.stats = NoStats THEN Absent
                 ELSE Field(
                      [scheduled |-> IF hunt.stats.scheduled = 0 THEN Absent ELSE Field(hunt.stats.scheduled),
                       results   |-> IF hunt.stats.results = 0 THEN Absent ELSE Field(hunt.stats.results),
                       errors    |-> IF hunt.stats.errors = 0 THEN Absent ELSE Field(hunt.stats.errors),
                       stopped   |-> IF hunt.stats.stopped THEN Field(TRUE) ELSE Absent,
                       downloads |-> IF hunt.stats.downloads = 0 THEN Absent ELSE Field(hunt.stats.downloads)])]

\* a string that is no protojson of a hunt (the Hunt of a zero HuntEntry)
NoPayload == [invalid |-> TRUE]

\* a field of a decoded message: left out, it has its zero value
FieldOr(field, zero) == IF field = Absent THEN zero ELSE field.v

\* protojson.Unmarshal(payload, hunt_info)
protojsonUnmarshal(payload) ==
    [hunt_id |-> FieldOr(payload.hunt_id, ""),
     state   |-> FieldOr(payload.state, "UNSET"),
     creator |-> FieldOr(payload.creator, ""),
     stats   |-> IF payload.stats = Absent THEN NoStats
                 ELSE [scheduled |-> FieldOr(payload.stats.v.scheduled, 0),
                       results   |-> FieldOr(payload.stats.v.results, 0),
                       errors    |-> FieldOr(payload.stats.v.errors, 0),
                       stopped   |-> FieldOr(payload.stats.v.stopped, FALSE),
                       downloads |-> FieldOr(payload.stats.v.downloads, 0)]]

\* the HuntEntry SetHunt builds (Timestamp and Expires, which no operation
\* modelled here reads, are left out)
NewHuntEntry(hunt) ==
    [HuntId    |-> hunt.hunt_id,
     Hunt      |-> protojsonMarshal(hunt),
     State     |-> hunt.state,
     DocType   |-> "hunts",
     Scheduled |-> IF hunt.stats # NoStats THEN hunt.stats.scheduled ELSE 0,
     Completed |-> IF hunt.stats # NoStats THEN hunt.stats.results ELSE 0,
     Errors    |-> IF hunt.stats # NoStats THEN hunt.stats.errors ELSE 0]

\* the zero HuntEntry, which json.Unmarshal leaves for a document of another kind
ZeroHuntEntry ==
    [HuntId |-> "", Hunt |-> NoPayload, State |-> "", DocType |-> "",
     Scheduled |-> 0, Completed |-> 0, Errors |-> 0]

\* the State the switch of HuntEntry.GetHunt gives hunt_info
EntryState(entry, decoded) ==
    IF entry.State \in {"PAUSED", "RUNNING", "STOPPED", "ARCHIVED"}
    THEN entry.State ELSE decoded.state

\* a HuntEntry.GetHunt that mixes up the counters
EntryStats_Swapped(entry, decoded) ==
    [scheduled |-> entry.Scheduled, results |-> entry.Errors,
     errors |-> entry.Completed, stopped |-> FALSE, downloads |-> 0]

\* a HuntEntry.GetHunt that keeps the Stats of the payload
EntryStats_FromPayload(entry, decoded) == decoded.stats

\* the Stats HuntEntry.GetHunt gives hunt_info
EntryStats(entry, decoded) ==
    [scheduled |-> entry.Scheduled, results |-> entry.Completed,
     errors |-> entry.Errors, stopped |-> FALSE, downloads |-> 0]

\* HuntEntry.GetHunt: [err, hunt]
HuntEntryGetHunt(entry) ==
    IF entry.Hunt = NoPayload
    THEN [err |-> "ParseError", hunt |-> NoHunt]
    ELSE LET decoded == protojsonUnmarshal(entry.Hunt)
         IN [err  |-> "nil",
             hunt |-> [decoded EXCEPT !.stats = EntryStats(entry, decoded),
                                      !.state = EntryState(entry, decoded)]]

\* the documents of the index: none, a hunt entry, a document of another record
\* kind, a document whose fields do not have the types of HuntEntry
NoDoc == [kind |-> "none"]
EntryDoc(entry) == [kind |-> "entry", entry |-> entry]
OtherDocs == {[kind |-> "foreign"], [kind |-> "mistyped"]}

\* json.Unmarshal(serialized, hunt_entry): [err, entry]
UnmarshalHuntEntry(doc) ==
    CASE doc.kind = "entry" -> [err |-> "nil", entry |-> doc.entry]
      [] doc.kind = "foreign" -> [err |-> "nil", entry |-> ZeroHuntEntry]
      [] OTHER -> [err |-> "ParseError", entry |-> ZeroHuntEntry]

\* the "found" field of a response body: not there, true, false, not a bool
FoundValues == {"absent", "true", "false", "not_bool"}

\* the store's response to a GET of a document: the request fails in the
\* transport, or it is answered, with success or with an error status, with a
\* body that parses or does not; only a body that parses carries fields
Response(outcome, parses, found, source) ==
    [outcome |-> outcome, parses |-> parses, found |-> found, source |-> source]
GetResponses ==
    {Response("transport_error", FALSE, "absent", NoDoc)}
    \cup {Response("success", TRUE, "true", doc) :
             doc \in {EntryDoc(NewHuntEntry(h)) : h \in {x \in Hunts : x.hunt_id # ""}} \cup OtherDocs}
    \cup {Response("success", FALSE, "absent", NoDoc)}
    \cup {Response("error", TRUE, found, NoDoc) : found \in FoundValues}
    \cup {Response("error", FALSE, "absent", NoDoc)}

\* a GetElasticRecord that takes every "found" field for found: false
IsNotFound_AnyFound(found) == found # "absent"

\* found, ok := found_any.(bool); ok && !found
IsNotFound(found) == found = "false"

\* GetElasticRecord: [err, source, sent], sent telling whether a request was made
GetRecordResult(client, response) ==
    IF GetElasticClient(client) # "nil"
    THEN [err |-> GetElasticClient(client), source |-> NoDoc, sent |-> FALSE]
    ELSE IF response.outcome = "transport_error"
    THEN [err |-> "TransportError", source |-> NoDoc, sent |-> TRUE]
    ELSE IF response.outcome = "success"
    THEN IF response.parses
         THEN [err |-> "nil", source |-> response.source, sent |-> TRUE]
         ELSE [err |-> "ParseError", source |-> NoDoc, sent |-> TRUE]
    ELSE IF ~response.parses
    THEN [err |-> "ParseError", source |-> NoDoc, sent |-> TRUE]
    ELSE IF IsNotFound(response.found)
    THEN [err |-> "ErrNotExist", source |-> NoDoc, sent |-> TRUE]
    ELSE [err |-> makeElasticError, source |-> NoDoc, sent |-> TRUE]

\* the response of the store that holds doc under the id, given how it answers
GetReply(doc, answer) ==
    CASE answer = "ok" /\ doc # NoDoc -> Response("success", TRUE, "true", doc)
      [] answer = "ok" /\ doc = NoDoc -> Response("error", TRUE, "false", NoDoc)
      [] answer = "store_error" -> Response("error", TRUE, "absent", NoDoc)
      [] answer = "bad_error_body" -> Response("error", FALSE, "absent", NoDoc)
      [] OTHER -> Response("transport_error", FALSE, "absent", NoDoc)

\* GetElasticRecord: [err, source], given the document and the store's answer
GetElasticRecord(client, doc, answer) ==
    [err    |-> GetRecordResult(client, GetReply(doc, answer)).err,
     source |-> GetRecordResult(client, GetReply(doc, answer)).source]

\* HuntDispatcher.GetHunt: what it returns, [found, hunt, panic]; panic is the
\* nil dereference of hunt_info.Stats
GetHuntResult(client, doc, answer, downloads) ==
    LET rec   == GetElasticRecord(client, doc, answer)
        entry == UnmarshalHuntEntry(rec.source)
        info  == HuntEntryGetHunt(entry.entry)
        miss  == [found |-> FALSE, hunt |-> NoHunt, panic |-> FALSE]
    IN IF rec.err # "nil" THEN miss
       ELSE IF entry.err # "nil" THEN miss
       ELSE IF info.err # "nil" THEN miss
       ELSE IF info.hunt.stats = NoStats
       THEN [found |-> FALSE, hunt |-> NoHunt, panic |-> TRUE]
       ELSE [found |-> TRUE,
             hunt  |-> [info.hunt EXCEPT !.stats.downloads = downloads],
             panic |-> FALSE]

Idle == [fn |-> "none"]
\* no call has returned since the last one began
NoCall == [op |-> "none"]

\* SetElasticClient(c), c not nil
SetElasticClient ==
    /\ ~client_set
    /\ client_set' = TRUE
    /\ UNCHANGED <<store, wcall, last, written>>

\* the state field of the document stored under an id, "none" without an entry
StoredState(doc) == IF doc.kind = "entry" THEN doc.entry.State ELSE "none"

\* the document stored under an id
DocAt(id) == IF id \in DOMAIN store THEN store[id] ELSE NoDoc

\* a store that keeps an ARCHIVED entry as it is
StoreAfter_KeepsArchived(call, doc) ==
    IF call.fn = "SetElasticIndex"
    THEN IF StoredState(doc) = "ARCHIVED" THEN doc ELSE call.doc
    ELSE [doc EXCEPT !.entry.State = call.doc]

\* the document after the store carried out the call's request
StoreAfter(call, doc) ==
    IF call.fn = "SetElasticIndex" THEN call.doc
    ELSE [doc EXCEPT !.entry.State = call.doc]

\* a SetHunt that takes every hunt id
InvalidHunt_Never(hunt) == FALSE

\* if hunt_id == "" { return errors.New("Invalid hunt") }
InvalidHunt(hunt) == hunt.hunt_id = ""

\* HuntDispatcher.SetHunt up to the call of SetElasticIndex
SetHunt(hunt) ==
    /\ wcall = Idle
    /\ IF InvalidHunt(hunt)
       THEN /\ last' = [op |-> "SetHunt", id |-> "", err |-> "InvalidHunt",
                        attempts |-> 0, failed |-> 0, answer |-> "none"]
            /\ UNCHANGED wcall
       ELSE /\ wcall' = [fn |-> "SetElasticIndex", op |-> "SetHunt", id |-> hunt.hunt_id,
                         doc |-> EntryDoc(NewHuntEntry(hunt)), hunt |-> hunt,
                         attempts |-> 0, failed |-> 0,
                         before |-> StoredState(DocAt(hunt.hunt_id))]
            /\ last' = NoCall
    /\ UNCHANGED <<client_set, store, written>>

\* UpdateIndex up to its first attempt; the update sets the state field
UpdateIndex(id, state) ==
    /\ wcall = Idle
    /\ wcall' = [fn |-> "UpdateIndex", op |-> "UpdateIndex", id |-> id,
                 doc |-> state, hunt |-> NoHunt, attempts |-> 0, failed |-> 0,
                 before |-> StoredState(DocAt(id))]
    /\ last' = NoCall
    /\ UNCHANGED <<client_set, store, written>>

\* the store can give this answer to the call's request
CanAnswer(call, answer) ==
    \/ call.fn = "SetElasticIndex"
    \/ store[call.id].kind = "entry"
    \/ ~Applied(answer)

\* the error of one attempt of the call
AttemptError(call, client, answer) ==
    IF call.fn = "SetElasticIndex" THEN _SetElasticIndex(client, answer)
    ELSE _UpdateIndex(client, answer)

\* one attempt of the call in progress and what retry does with its error:
\* sent tells whether a request reached the transport
Attempt(sent, answer) ==
    LET err      == AttemptError(wcall, client_set, answer)
        attempts == wcall.attempts + 1
        failed   == IF err = "nil" THEN wcall.failed ELSE wcall.failed + 1
        applied  == sent /\ Applied(answer)
    IN /\ wcall # Idle
       /\ store' = IF applied THEN [store EXCEPT ![wcall.id] = StoreAfter(wcall, @)]
                   ELSE store
       /\ written' = IF applied
                     THEN [written EXCEPT ![wcall.id] =
                              IF err = "nil" /\ wcall.op = "SetHunt" THEN wcall.hunt ELSE NoHunt]
                     ELSE written
       /\ IF retry(err, attempts)
          THEN /\ wcall' = [wcall EXCEPT !.attempts = attempts, !.failed = failed]
               /\ UNCHANGED last
          ELSE /\ wcall' = Idle
               /\ last' = [op |-> wcall.op, id |-> wcall.id, err |-> err,
                           attempts |-> attempts, failed |-> failed,
                           answer |-> IF sent THEN answer ELSE "none",
                           before |-> wcall.before]
       /\ UNCHANGED client_set

\* an attempt without a client: no request is made
AttemptNoClient ==
    /\ ~client_set
    /\ Attempt(FALSE, "transport_error")

\* an attempt whose request the store answers
AttemptRequest(answer) ==
    /\ client_set
    /\ wcall # Idle
    /\ CanAnswer(wcall, answer)
    /\ Attempt(TRUE, answer)

\* HuntDispatcher.GetHunt
GetHunt(hunt_id, answer, downloads) ==
    LET res == GetHuntResult(client_set, store[hunt_id], answer, downloads)
    IN /\ wcall = Idle
       /\ last' = [op |-> "GetHunt", id |-> hunt_id, found |-> res.found,
                   hunt |-> res.hunt, panic |-> res.panic,
                   answer |-> IF client_set THEN answer ELSE "none",
                   seen |-> store[hunt_id].kind]
       /\ UNCHANGED <<client_set, store, wcall, written>>

\* another component writes a document of its own under the id
ForeignWrite(id, doc) ==
    /\ store[id] # doc
    /\ store' = [store EXCEPT ![id] = doc]
    /\ written' = [written EXCEPT ![id] = NoHunt]
    /\ UNCHANGED <<client_set, wcall, last>>

StoreStart ==
    /\ store = [id \in DocIds |-> NoDoc]
    /\ wcall = Idle
    /\ last = NoCall
    /\ written = [id \in DocIds |-> NoHunt]

\* the process has started; the client may not be set yet
StoreInit ==
    /\ client_set \in BOOLEAN
    /\ StoreStart

\* the store variables of a specification that runs no store operation
StoreParked ==
    /\ client_set = FALSE
    /\ StoreStart

(***************************************************************************)
(* package hunt_dispatcher: ApplyFuncOnHuntsWithOptions                    *)
(***************************************************************************)
\* cvelo_services.HuntSearchOptions: the two the switch knows, and another
SearchOptions == {"AllHunts", "OnlyRunningHunts", "Other"}

\* the errors cb can return
CbErrors == {"cb_error_a", "cb_error_b"}

\* the documents a hit can be: a hunt entry SetHunt wrote, a document that
\* unmarshals to a HuntEntry without a payload, one that does not unmarshal
ScanHunt == [hunt_id |-> "H.1", state |-> "RUNNING", stats |-> NoStats, creator |-> "alice"]
ScanDocs == {EntryDoc(NewHuntEntry(ScanHunt))} \cup OtherDocs

ScanState(st, hit, err) == [st |-> st, hit |-> hit, err |-> err]
ScanIdle == ScanState("idle", 0, "nil")
ScanRunning == ScanState("running", 0, "nil")

\* a scan that goes on after cb returned an error
CbStops_Never(ret) == FALSE

\* err = cb(hunt_obj); if err != nil { return err }
CbStops(ret) == ret # "nil"

\* the switch on options: the scan does not start
\* a scan that returns without cancelling sub_ctx
DeferredCancel_Missing(done) == done

\* sub_ctx, cancel := context.WithCancel(ctx); defer cancel(): sub_ctx is done
\* once the scan has returned
DeferredCancel(done) == TRUE

ScanUnsupported ==
    /\ scan = ScanIdle
    /\ qpc = "call"
    /\ scan' = ScanState("returned", 0, "NotSupported")
    /\ UNCHANGED <<kinds, visited, queryVars>>

\* the call of QueryChan; its error is returned
ScanCall ==
    /\ scan = ScanIdle
    /\ QueryChanCall
    /\ scan' = IF qpc' = "failed" THEN ScanState("returned", 0, "QueryError")
               ELSE ScanRunning
    /\ UNCHANGED <<kinds, visited>>

\* for hit := range out: the scan receives the hit the producer offers
ScanReceive ==
    /\ scan = ScanRunning
    /\ ProducerEmit
    /\ scan' = ScanState("got", Len(received'), "nil")
    /\ UNCHANGED <<kinds, visited>>

\* the body of the loop for the hit received: json.Unmarshal, entry.GetHunt,
\* cb; a return runs the deferred cancel()
ScanVisit(ret) ==
    LET doc   == kinds[received[scan.hit].id]
        entry == UnmarshalHuntEntry(doc)
        info  == HuntEntryGetHunt(entry.entry)
    IN /\ scan.st = "got"
       /\ IF entry.err # "nil"
          THEN /\ scan' = ScanState("returned", scan.hit, entry.err)
               /\ cancelled' = DeferredCancel(cancelled)
               /\ consumer' = "stopped"
               /\ UNCHANGED visited
          ELSE IF info.err # "nil"
          THEN /\ scan' = ScanRunning
               /\ UNCHANGED <<visited, cancelled, consumer>>
          ELSE /\ visited' = Append(visited, [hit |-> scan.hit, ret |-> ret])
               /\ IF CbStops(ret)
                  THEN /\ scan' = ScanState("returned", scan.hit, ret)
                       /\ cancelled' = DeferredCancel(cancelled)
                       /\ consumer' = "stopped"
                  ELSE /\ scan' = ScanRunning
                       /\ UNCHANGED <<cancelled, consumer>>
       /\ UNCHANGED <<kinds, dataset, page_size, sort_field, qpc, part, idx, search_after,
                      received, nclose, npages, storeFailed>>

\* out is closed: the loop ends, return nil
ScanEnd ==
    /\ scan = ScanRunning
    /\ qpc = "closed"
    /\ scan' = ScanState("returned", 0, "nil")
    /\ cancelled' = DeferredCancel(cancelled)
    /\ consumer' = "stopped"
    /\ UNCHANGED <<kinds, visited, dataset, page_size, sort_field, qpc, part, idx,
                   search_after, received, nclose, npages, storeFailed>>

ScanStart ==
    /\ scan = ScanIdle
    /\ visited = <<>>

\* the scan is about to be called over a dataset of hunt documents, sorted on
\* hunt_id
ScanInit ==
    /\ QueryInit
    /\ sort_field = "hunt_id"
    /\ kinds \in [1 .. Len(dataset) -> ScanDocs]
    /\ ScanStart

\* the scan variables of a specification that runs no scan
ScanParked ==
    /\ kinds = <<>>
    /\ ScanStart

(***************************************************************************)
(* package services: single calls of the store client's functions          *)
(***************************************************************************)
NoRet == [op |-> "none"]

\* a call of GetElasticRecord
CallGetElasticRecord(client, response) ==
    /\ called = NoRet
    /\ called' = [op |-> "GetElasticRecord", client |-> client, response |-> response,
               result |-> GetRecordResult(client, response)]

\* strings are sequences of characters; the characters of tenant ids
Chars == {"o", "O", "1", "_"}
\* "root"
Root == <<"r", "o", "o", "t">>
RECURSIVE Strings(_)
Strings(n) ==
    IF n = 0 THEN {<<>>}
    ELSE Strings(n - 1) \cup {Append(str, c) : str \in Strings(n - 1), c \in Chars}
\* the tenant ids GetIndex is called with
OrgIds == Strings(MaxIdLen) \cup {Root}
\* the logical indexes
Indexes == {<<"p">>, <<"o", "_", "p">>}

\* strings.ToLower
ToLowerChar(c) == IF c = "O" THEN "o" ELSE c
ToLower(str) == [i \in 1 .. Len(str) |-> ToLowerChar(str[i])]

\* GetIndex
GetIndex(org_id, index) ==
    LET org == IF org_id = Root THEN <<>> ELSE org_id
    IN IF org = <<>> THEN index
       ELSE ToLower(org) \o <<"_">> \o index

\* GetIndex for two tenant ids and one logical index
CallGetIndex(t1, t2, index) ==
    /\ called = NoRet
    /\ called' = [op |-> "GetIndex", t1 |-> t1, t2 |-> t2, index |-> index,
                  r1 |-> GetIndex(t1, index), r2 |-> GetIndex(t2, index)]

\* the hunt documents of the index ListHunts reads, and documents that are none
ListedHunts ==
    [hunt_id : {"H.1"}, state : {"RUNNING", "ARCHIVED"}, stats : {NoStats}, creator : Creators]
ListDocs == {EntryDoc(NewHuntEntry(h)) : h \in ListedHunts} \cup OtherDocs
RECURSIVE DocSeqs(_)
DocSeqs(n) ==
    IF n = 0 THEN {<<>>}
    ELSE DocSeqs(n - 1) \cup {Append(docs, d) : docs \in DocSeqs(n - 1), d \in ListDocs}
\* in.UserFilter
UserFilters == Creators \cup {""}

\* the hits of the query's "from": offset, "size": count window
Window(docs, offset, count) ==
    SubSeq(docs, offset + 1, Min(Len(docs), offset + count))

\* json.Unmarshal and entry.GetHunt both succeed for the hit
ListDecodes(doc) ==
    /\ UnmarshalHuntEntry(doc).err = "nil"
    /\ HuntEntryGetHunt(UnmarshalHuntEntry(doc).entry).err = "nil"
ListDecoded(doc) == HuntEntryGetHunt(UnmarshalHuntEntry(doc).entry).hunt

\* a ListHunts that returns archived hunts too
KeepHunt_Archived(hunt, user_filter) ==
    ~(user_filter # "" /\ user_filter # hunt.creator)

\* the user filter and the ARCHIVED test of ListHunts
KeepHunt(hunt, user_filter) ==
    /\ ~(user_filter # "" /\ user_filter # hunt.creator)
    /\ hunt.state # "ARCHIVED"

\* the loop of ListHunts over the first n hits: the items, each with the
\* position of its hit
RECURSIVE ListItems(_, _, _)
ListItems(hits, n, user_filter) ==
    IF n = 0 THEN <<>>
    ELSE IF ListDecodes(hits[n]) /\ KeepHunt(ListDecoded(hits[n]), user_filter)
    THEN Append(ListItems(hits, n - 1, user_filter),
                [pos |-> n, hunt |-> ListDecoded(hits[n])])
    ELSE ListItems(hits, n - 1, user_filter)

\* HuntDispatcher.ListHunts: [err, items]
ListHunts(answer, docs, offset, count, user_filter) ==
    IF answer # "ok" THEN [err |-> "QueryError", items |-> <<>>]
    ELSE [err   |-> "nil",
          items |-> ListItems(Window(docs, offset, count),
                              Len(Window(docs, offset, count)), user_filter)]

CallListHunts(answer, docs, offset, count, user_filter) ==
    /\ called = NoRet
    /\ called' = [op |-> "ListHunts", answer |-> answer, docs |-> docs,
                  offset |-> offset, count |-> count, user_filter |-> user_filter,
                  result |-> ListHunts(answer, docs, offset, count, user_filter)]

\* the names of the indexes the cluster can report
IndexNames == {"persisted", "o1_persisted", "o1_results"}
RECURSIVE NameSeqs(_)
NameSeqs(n) ==
    IF n = 0 THEN {<<>>}
    ELSE NameSeqs(n - 1) \cup {Append(names, x) : names \in NameSeqs(n - 1), x \in IndexNames}

\* make([]string, n): n empty strings
MakeStrings(n) == [i \in 1 .. n |-> ""]

\* ListIndexes: [err, results], given the names of the CatIndices response
ListIndexes(client, answer, indexes) ==
    IF GetElasticClient(client) # "nil"
    THEN [err |-> GetElasticClient(client), results |-> <<>>]
    ELSE IF answer # "ok"
    THEN [err |-> "TransportError", results |-> <<>>]
    ELSE [err |-> "nil", results |-> MakeStrings(Len(indexes)) \o indexes]

CallListIndexes(client, answer, indexes) ==
    /\ called = NoRet
    /\ called' = [op |-> "ListIndexes", client |-> client, answer |-> answer,
                  indexes |-> indexes, result |-> ListIndexes(client, answer, indexes)]

\* the operations of the store client; DeleteDocument is two, by its sync flag
SearchOps == {"QueryElasticAggregations", "QueryElasticRaw", "QueryElasticIds", "QueryElastic"}
StoreOps ==
    {"ListIndexes", "DeleteDocument", "DeleteDocumentSync", "FlushIndex", "UpdateIndex",
     "UpdateByQuery", "SetElasticIndexAsync", "SetElasticIndex", "GetElasticRecord",
     "DeleteByQuery"} \cup SearchOps

\* the request an operation sends to the store
RequestOf(op) ==
    CASE op = "ListIndexes" -> "cat_indices"
      [] op \in {"DeleteDocument", "DeleteDocumentSync"} -> "delete"
      [] op = "FlushIndex" -> "refresh"
      [] op = "UpdateIndex" -> "update"
      [] op = "UpdateByQuery" -> "update_by_query"
      [] op = "SetElasticIndex" -> "index"
      [] op = "GetElasticRecord" -> "get"
      [] op = "DeleteByQuery" -> "delete_by_query"
      [] op \in SearchOps -> "search"
      [] OTHER -> "none"

\* a client that wraps every operation in retry
Retried_All(op) == TRUE

\* the operations whose body runs inside retry(func() error {...})
Retried(op) == op \in {"SetElasticIndex", "UpdateIndex"}

\* Do returned an error and no response
NoResponse(answer) == answer \in {"transport_error", "response_lost"}

\* what a call does: the error it returns, the requests it sent, in order, the
\* number of times its body ran, and whether it panicked instead of returning
OpResult(err, requests, panic) ==
    [err |-> err, requests |-> requests, attempts |-> 1, panic |-> panic]

\* the error of an operation that returns the err of Do and never looks at
\* the status of the response
DoError(answer) == IF NoResponse(answer) THEN "TransportError" ELSE "nil"

\* one run of the body of an operation; indexer tells whether bulk_indexer is
\* set, a1 and a2 are the store's answers to its first and second request
OpBody(op, client, indexer, a1, a2) ==
    IF op = "SetElasticIndexAsync"
    THEN \* no GetElasticClient here: l_bulk_indexer.Add on the nil interface panics
         IF indexer THEN OpResult("nil", <<>>, FALSE) ELSE OpResult("none", <<>>, TRUE)
    ELSE IF GetElasticClient(client) # "nil"
    THEN OpResult(GetElasticClient(client), <<>>, FALSE)
    ELSE CASE op = "DeleteDocument" -> OpResult(DoError(a1), <<"delete">>, FALSE)
           [] op = "DeleteDocumentSync" ->
                 IF NoResponse(a1) THEN OpResult("TransportError", <<"delete">>, FALSE)
                 ELSE IF NoResponse(a2)
                 THEN \* defer res.Body.Close() with res == nil
                      OpResult("none", <<"delete", "refresh">>, TRUE)
                 ELSE OpResult("nil", <<"delete", "refresh">>, FALSE)
           [] op = "FlushIndex" ->
                 IF NoResponse(a1) THEN OpResult("none", <<"refresh">>, TRUE)
                 ELSE OpResult("nil", <<"refresh">>, FALSE)
           [] op = "SetElasticIndex" ->
                 OpResult(_SetElasticIndex(client, a1), <<"index">>, FALSE)
           [] op = "UpdateIndex" ->
                 OpResult(_UpdateIndex(client, a1), <<"update">>, FALSE)
           [] op = "GetElasticRecord" ->
                 OpResult(GetElasticRecord(client, NoDoc, a1).err, <<"get">>, FALSE)
           [] op = "ListIndexes" ->
                 OpResult(ListIndexes(client, a1, <<>>).err, <<"cat_indices">>, FALSE)
           [] OTHER -> \* UpdateByQuery, DeleteByQuery and the searches
                 OpResult(ResponseError(a1), <<RequestOf(op)>>, FALSE)

\* a call of the operation from its n-th run of the body on, the store
\* answering the requests of the call with answers, in order
RECURSIVE StoreOp(_, _, _, _, _)
StoreOp(op, client, indexer, answers, n) ==
    LET r == OpBody(op, client, indexer, answers[n], answers[Min(n + 1, Len(answers))])
    IN IF Retried(op) /\ ~r.panic /\ retry(r.err, n)
       THEN [StoreOp(op, client, indexer, answers, n + 1) EXCEPT
                !.requests = r.requests \o @]
       ELSE [r EXCEPT !.attempts = n]

\* the answers of the store to the requests of one call
AnswerSeqs == [1 .. MaxAttempts -> WriteAnswers]

\* one call of an operation of the store client
CallStoreOp(op, client, indexer, answers) ==
    /\ called = NoRet
    /\ called' = [op |-> "StoreOp", fn |-> op, client |-> client, indexer |-> indexer,
                  answers |-> answers, result |-> StoreOp(op, client, indexer, answers, 1)]

(***************************************************************************)
(* package ingestion: Ingestor.Process                                     *)
(***************************************************************************)
\* crypto_proto.VeloMessage_AuthState
AuthStates == {"UNSET", "UNAUTHENTICATED", "AUTHENTICATED", "DESYNCHRONIZED"}
\* constants.MONITORING_WELL_KNOWN_FLOW and the id of a collection
MONITORING_WELL_KNOWN_FLOW == "F.Monitoring"
SessionIds == {MONITORING_WELL_KNOWN_FLOW, "F.1"}

\* the fields of a VeloMessage that Process looks at; a BOOLEAN field tells
\* whether the pointer is non-nil
VeloMessages ==
    [AuthState : AuthStates, SessionId : SessionIds, LogMessage : BOOLEAN,
     VQLResponse : BOOLEAN, Status : BOOLEAN, ForemanCheckin : BOOLEAN,
     FileBuffer : BOOLEAN]

\* an ingestor that takes no message for an enrolment request
Unauthenticated_Never(message) == FALSE

\* message.AuthState == crypto_proto.VeloMessage_UNAUTHENTICATED
Unauthenticated(message) == message.AuthState = "UNAUTHENTICATED"

\* what Process returns after it called the handlers of invoked, in order, the
\* last of which returned err
Routed(invoked, err) == [invoked |-> invoked, err |-> err]

\* Ingestor.Process: org_err, config_err and hunt_err are the errors of
\* GetOrgManager, GetOrgConfig and maybeHandleHuntResponse, handler_err the
\* error of the handler whose result Process returns
Process(message, org_err, config_err, hunt_err, handler_err) ==
    IF org_err # "nil" THEN Routed(<<>>, org_err)
    ELSE IF config_err # "nil" THEN Routed(<<>>, config_err)
    ELSE IF Unauthenticated(message) THEN Routed(<<"HandleEnrolment">>, handler_err)
    ELSE IF message.SessionId = MONITORING_WELL_KNOWN_FLOW
    THEN IF message.LogMessage THEN Routed(<<"HandleMonitoringLogs">>, handler_err)
         ELSE IF message.VQLResponse
         THEN Routed(<<"HandleMonitoringResponses">>, handler_err)
         ELSE Routed(<<>>, "nil")
    ELSE IF hunt_err # "nil" THEN Routed(<<"maybeHandleHuntResponse">>, hunt_err)
    ELSE IF message.LogMessage
    THEN Routed(<<"maybeHandleHuntResponse", "HandleLogs">>, handler_err)
    ELSE IF message.VQLResponse
    THEN Routed(<<"maybeHandleHuntResponse", "HandleResponses">>, handler_err)
    ELSE IF message.Status
    THEN Routed(<<"maybeHandleHuntResponse", "HandleStatus">>, handler_err)
    ELSE IF message.ForemanCheckin
    THEN Routed(<<"maybeHandleHuntResponse", "HandlePing">>, handler_err)
    ELSE IF message.FileBuffer
    THEN Routed(<<"maybeHandleHuntResponse", "HandleUploads">>, handler_err)
    ELSE Routed(<<"maybeHandleHuntResponse">>, "nil")

\* one call of Process
CallProcess(message, org_err, config_err, hunt_err, handler_err) ==
    /\ called = NoRet
    /\ called' = [op |-> "Process", message |-> message, org_err |-> org_err,
                  config_err |-> config_err, hunt_err |-> hunt_err,
                  handler_err |-> handler_err,
                  result |-> Process(message, org_err, config_err, hunt_err, handler_err)]

CallInit == called = NoRet
\* the call variable of a specification that makes no such call
CallParked == called = NoRet

(***************************************************************************)
(* package services: StartBulkIndexService                                 *)
(***************************************************************************)
\* 30*time.Second, in ticks of the clock
ShutdownTimeout == 3

NoContext == [parent |-> "none", left |-> 0]

\* a goroutine that closes the indexer with the ctx that was just cancelled
SubContext_FromCaller == [parent |-> "caller", left |-> 0]

\* context.WithTimeout(context.Background(), 30*time.Second)
SubContext == [parent |-> "background", left |-> ShutdownTimeout]

\* the context is done: its deadline passed, or its parent was cancelled
ContextDone(c) == c.left = 0 \/ (c.parent = "caller" /\ bctx)

\* Close(subctx) returns: nothing is left to flush, or subctx is done
CloseCanReturn(batches, c) == batches = 0 \/ ContextDone(c)

\* StartBulkIndexService; without a client it returns the error and starts
\* no goroutine
StartBulkIndexService(client) ==
    /\ bpc = "none"
    /\ IF GetElasticClient(client) # "nil"
       THEN bpc' = "failed" /\ UNCHANGED wgcount
       ELSE bpc' = "wait" /\ wgcount' = wgcount + 1
    /\ UNCHANGED <<bctx, subctx, pending, flushable, waiter>>

\* SetElasticIndexAsync: a record is queued
BulkAdd ==
    /\ bpc = "wait"
    /\ pending < MaxBatches
    /\ pending' = pending + 1
    /\ UNCHANGED <<bctx, bpc, subctx, wgcount, flushable, waiter>>

\* the indexer flushes a batch to the store
BulkFlush ==
    /\ bpc \in {"wait", "closing"}
    /\ flushable
    /\ pending > 0
    /\ pending' = pending - 1
    /\ UNCHANGED <<bctx, bpc, subctx, wgcount, flushable, waiter>>

\* the store stops taking batches
StoreUnreachable ==
    /\ flushable
    /\ flushable' = FALSE
    /\ UNCHANGED <<bctx, bpc, subctx, wgcount, pending, waiter>>

\* the service context is cancelled
BulkCancel ==
    /\ ~bctx
    /\ bctx' = TRUE
    /\ UNCHANGED <<bpc, subctx, wgcount, pending, flushable, waiter>>

\* <-ctx.Done(), then context.WithTimeout and the call of Close
ShutdownBegin ==
    /\ bpc = "wait"
    /\ bctx
    /\ subctx' = SubContext
    /\ bpc' = "closing"
    /\ UNCHANGED <<bctx, wgcount, pending, flushable, waiter>>

\* time passes while Close runs
ShutdownTick ==
    /\ bpc = "closing"
    /\ subctx.left > 0
    /\ subctx' = [subctx EXCEPT !.left = @ - 1]
    /\ UNCHANGED <<bctx, bpc, wgcount, pending, flushable, waiter>>

\* Close returns; the deferred cancel() and wg.Done() run
ShutdownEnd ==
    /\ bpc = "closing"
    /\ CloseCanReturn(pending, subctx)
    /\ bpc' = "done"
    /\ wgcount' = wgcount - 1
    /\ UNCHANGED <<bctx, subctx, pending, flushable, waiter>>

\* the owner of the wait group calls wg.Wait() after it cancelled the context
WaiterWait ==
    /\ waiter = "running"
    /\ bctx
    /\ waiter' = "waiting"
    /\ UNCHANGED <<bctx, bpc, subctx, wgcount, pending, flushable>>

\* wg.Wait() returns
WaiterExit ==
    /\ waiter = "waiting"
    /\ wgcount = 0
    /\ waiter' = "exited"
    /\ UNCHANGED <<bctx, bpc, subctx, wgcount, pending, flushable>>

BulkStart ==
    /\ bctx = FALSE
    /\ waiter = "running"
    /\ bpc = "none"
    /\ subctx = NoContext
    /\ wgcount = 0
    /\ pending = 0

BulkInit ==
    /\ flushable \in BOOLEAN
    /\ BulkStart

\* the bulk indexer variables of a specification that does not start it
BulkParked ==
    /\ flushable = FALSE
    /\ BulkStart

(***************************************************************************)
(* package uploads: the session tracker                                    *)
(***************************************************************************)
\* the zero SessionTracker
NilTracker == [session_id |-> "", count |-> 0, age |-> 0]

\* &SessionTracker{session_id: session_id}
NewTracker(session_id) == [session_id |-> session_id, count |-> 0, age |-> 0]

\* a sweep that also deletes the entries exactly one hour old
Before_Inclusive(age, limit) == age <= limit

\* v.age.Before(limit)
Before(age, limit) == age < limit

\* expireTrackers: the map with every entry older than one hour deleted
expireTrackers(tbl, hp, tm) ==
    LET limit == tm - Hour
    IN [k \in Sessions |->
          IF tbl[k] # NoTracker /\ Before(hp[tbl[k]].age, limit)
          THEN NoTracker ELSE tbl[k]]

\* the heap after GetTracker: the entry is created when absent, its age refreshed
GetTrackerHeap(hp, tbl, session_id, fresh, tm) ==
    IF tbl[session_id] # NoTracker
    THEN [hp EXCEPT ![tbl[session_id]].age = tm]
    ELSE [hp EXCEPT ![fresh] = [NewTracker(session_id) EXCEPT !.age = tm]]

\* the map after GetTracker, before the sweep
GetTrackerTable(tbl, session_id, fresh) ==
    IF tbl[session_id] # NoTracker THEN tbl ELSE [tbl EXCEPT ![session_id] = fresh]

\* the garbage collector: an object that neither the map nor a caller refers to is gone
Collect(hp, tbl, hld) ==
    [t \in Objects |->
        IF (\E k \in Sessions : tbl[k] = t) \/ (\E c \in Callers : hld[c] = t)
        THEN hp[t] ELSE NilTracker]

GetTracker(c, session_id) ==
    LET pres  == session_tracker[session_id] # NoTracker
        fresh == nalloc + 1
        hp1   == GetTrackerHeap(heap, session_tracker, session_id, fresh, now)
        tbl1  == GetTrackerTable(session_tracker, session_id, fresh)
        tbl2  == expireTrackers(tbl1, hp1, now)
        gone  == {k \in Sessions : tbl1[k] # NoTracker /\ tbl2[k] = NoTracker}
    IN /\ held[c] = NoTracker
       /\ pres \/ nalloc < MaxObj
       /\ session_tracker' = tbl2
       /\ nalloc' = IF pres THEN nalloc ELSE fresh
       /\ held' = [held EXCEPT ![c] = tbl1[session_id]]
       /\ heap' = Collect(hp1, session_tracker', held')
       /\ evicted' = [k \in Sessions |-> evicted[k] \/ k \in gone]
       /\ soloOwner' = [k \in Sessions |->
                          IF k \in gone THEN NoCaller
                          ELSE IF k # session_id THEN soloOwner[k]
                          ELSE IF ~pres THEN c
                          ELSE IF soloOwner[k] = c THEN c ELSE NoCaller]
       /\ soloStart' = [k \in Sessions |->
                          IF k = session_id /\ ~pres THEN Len(rows[k]) ELSE soloStart[k]]
       /\ UNCHANGED <<now, rows>>

\* a ReturnTracker that returns the count after the increment
ReturnedCount_AfterIncrement(tracker) == tracker.count + 1

\* the count ReturnTracker returns
ReturnedCount(tracker) == tracker.count

\* a ReturnTracker that forgets tracker.count++
ReturnTrackerUpdate_NoIncrement(tracker, tm) ==
    [tracker EXCEPT !.age = tm]

\* the tracker after ReturnTracker: tracker.count++ ; tracker.age = time.Now()
ReturnTrackerUpdate(tracker, tm) ==
    [tracker EXCEPT !.count = @ + 1, !.age = tm]

\* a ReturnTracker whose counter is shared by all sessions
ReturnTrackerHeap_SharedCounter(hp, t, tm) ==
    [u \in Objects |->
        IF u = t THEN ReturnTrackerUpdate(hp[u], tm)
        ELSE IF hp[u].session_id # "" /\ hp[u].count < MaxCount
             THEN [hp[u] EXCEPT !.count = @ + 1]
        ELSE hp[u]]

\* the heap after ReturnTracker(t)
ReturnTrackerHeap(hp, t, tm) == [hp EXCEPT ![t] = ReturnTrackerUpdate(@, tm)]

ReturnTracker(c) ==
    LET t     == held[c]
        sid   == heap[t].session_id
        count == ReturnedCount(heap[t])
    IN /\ t # NoTracker
       /\ heap[t].count < MaxCount
       /\ session_tracker' = [session_tracker EXCEPT ![sid] = t]
       /\ held' = [held EXCEPT ![c] = NoTracker]
       /\ heap' = Collect(ReturnTrackerHeap(heap, t, now), session_tracker', held')
       /\ rows' = [rows EXCEPT ![sid] = Append(@, count)]
       /\ soloOwner' = [soloOwner EXCEPT ![sid] = IF @ = c THEN c ELSE NoCaller]
       /\ UNCHANGED <<now, nalloc, evicted, soloStart>>

\* time passes
Tick ==
    /\ now < MaxTime
    /\ now' = now + 1
    /\ UNCHANGED <<session_tracker, heap, nalloc, held, rows, evicted, soloOwner, soloStart>>

\* SetUploaderService: an empty map
TrackerInit ==
    /\ now = 0
    /\ session_tracker = [k \in Sessions |-> NoTracker]
    /\ heap = [t \in Objects |-> NilTracker]
    /\ nalloc = 0
    /\ held = [c \in Callers |-> NoTracker]
    /\ rows = [k \in Sessions |-> <<>>]
    /\ evicted = [k \in Sessions |-> FALSE]
    /\ soloOwner = [k \in Sessions |-> NoCaller]
    /\ soloStart = [k \in Sessions |-> 0]

(***************************************************************************)
(* The specifications                                                      *)
(***************************************************************************)
\* what the steps of one component leave alone
TrackerFrame == UNCHANGED <<queryVars, storeVars, scanVars, callVars, bulkVars>>
QueryFrame == UNCHANGED <<trackerVars, storeVars, scanVars, callVars, bulkVars>>
StoreFrame == UNCHANGED <<trackerVars, queryVars, scanVars, callVars, bulkVars>>
ScanFrame == UNCHANGED <<trackerVars, storeVars, callVars, bulkVars>>
CallFrame == UNCHANGED <<trackerVars, queryVars, storeVars, scanVars, bulkVars>>
BulkFrame == UNCHANGED <<trackerVars, queryVars, storeVars, scanVars, callVars>>

TrackerNext ==
    /\ \/ \E c \in Callers : \E session_id \in Sessions : GetTracker(c, session_id)
       \/ \E c \in Callers : ReturnTracker(c)
       \/ Tick
    /\ TrackerFrame

\* the tracker after SetUploaderService, nothing else running
InitTracker == TrackerInit /\ QueryParked /\ StoreParked /\ ScanParked /\ CallParked /\ BulkParked

SpecTracker == InitTracker /\ [][TrackerNext]_vars

\* a step of QueryChan or of its goroutine
ProducerStep ==
    \/ QueryChanCall /\ QueryFrame
    \/ ProducerLoop /\ QueryFrame
    \/ ProducerObserveDone /\ QueryFrame
    \/ ProducerEmit /\ QueryFrame
    \/ ProducerNextPage /\ QueryFrame

\* a consumer that may stop reading
QueryNext ==
    \/ ProducerStep
    \/ Cancel /\ QueryFrame
    \/ ConsumerStop /\ QueryFrame

\* a consumer that keeps reading
QueryNextReading ==
    \/ ProducerStep
    \/ Cancel /\ QueryFrame

\* a QueryChan call about to be made, nothing else running
InitQuery == QueryInit /\ TrackerInit /\ StoreParked /\ ScanParked /\ CallParked /\ BulkParked

SpecQuery == InitQuery /\ [][QueryNext]_vars

\* the producer goroutine is scheduled; the consumer may stop
SpecQueryFair == SpecQuery /\ WF_vars(ProducerStep)

\* the producer goroutine is scheduled and the consumer keeps reading
SpecQueryReading ==
    InitQuery /\ [][QueryNextReading]_vars /\ WF_vars(ProducerStep)

StoreNext ==
    \/ SetElasticClient /\ StoreFrame
    \/ \E hunt \in Hunts : SetHunt(hunt) /\ StoreFrame
    \/ \E id \in WrittenIds : \E state \in UpdateStates :
          UpdateIndex(id, state) /\ StoreFrame
    \/ AttemptNoClient /\ StoreFrame
    \/ \E answer \in WriteAnswers :
          AttemptRequest(answer) /\ StoreFrame
    \/ \E hunt_id \in DocIds : \E answer \in ReadAnswers : \E downloads \in {0, 1} :
          GetHunt(hunt_id, answer, downloads) /\ StoreFrame
    \/ \E id \in WrittenIds : \E doc \in OtherDocs :
          ForeignWrite(id, doc) /\ StoreFrame

\* the store client and the hunt dispatcher, nothing else running
InitStore == StoreInit /\ TrackerInit /\ QueryParked /\ ScanParked /\ CallParked /\ BulkParked

SpecStore == InitStore /\ [][StoreNext]_vars

\* ApplyFuncOnHuntsWithOptions and the producer goroutine of its QueryChan
ScanProducerStep ==
    \/ ProducerLoop /\ QueryFrame
    \/ ProducerObserveDone /\ QueryFrame
    \/ ProducerNextPage /\ QueryFrame

ScanNext ==
    \/ ScanUnsupported /\ ScanFrame
    \/ ScanCall /\ ScanFrame
    \/ ScanProducerStep
    \/ ScanReceive /\ ScanFrame
    \/ \E ret \in CbErrors \cup {"nil"} : ScanVisit(ret) /\ ScanFrame
    \/ ScanEnd /\ ScanFrame

InitScan == ScanInit /\ TrackerInit /\ StoreParked /\ CallParked /\ BulkParked

SpecScan == InitScan /\ [][ScanNext]_vars

\* the producer goroutine is scheduled
SpecScanFair == SpecScan /\ WF_vars(ScanProducerStep)

\* one call of a function of the store client
\* one call, and only from the state in which none has been made
CallPending == called = NoRet

CallNext ==
    \/ CallPending /\ \E client \in BOOLEAN : \E response \in GetResponses :
          CallGetElasticRecord(client, response) /\ CallFrame
    \/ CallPending /\ \E t1 \in OrgIds : \E t2 \in OrgIds : \E index \in Indexes :
          CallGetIndex(t1, t2, index) /\ CallFrame
    \/ CallPending /\ \E answer \in {"ok", "error"} : \E docs \in DocSeqs(MaxDocs) :
       \E offset \in 0 .. 1 : \E count \in 1 .. MaxDocs : \E user_filter \in UserFilters :
          CallListHunts(answer, docs, offset, count, user_filter) /\ CallFrame
    \/ CallPending /\ \E client \in BOOLEAN : \E answer \in {"ok", "transport_error"} :
       \E indexes \in NameSeqs(MaxDocs) :
          CallListIndexes(client, answer, indexes) /\ CallFrame
    \* bulk_indexer is set by StartBulkIndexService only, which needs the client
    \/ CallPending /\ \E op \in StoreOps : \E client \in BOOLEAN :
       \E indexer \in {x \in BOOLEAN : x => client} : \E answers \in AnswerSeqs :
          CallStoreOp(op, client, indexer, answers) /\ CallFrame
    \/ CallPending /\ \E message \in VeloMessages : \E org_err \in {"nil", "OrgError"} :
       \E config_err \in {"nil", "ConfigError"} : \E hunt_err \in {"nil", "HuntError"} :
       \E handler_err \in {"nil", "HandlerError"} :
          CallProcess(message, org_err, config_err, hunt_err, handler_err) /\ CallFrame

InitCall == CallInit /\ TrackerInit /\ QueryParked /\ StoreParked /\ ScanParked /\ BulkParked

SpecCall == InitCall /\ [][CallNext]_vars

\* the steps of the shutdown goroutine, of the clock while Close runs and of
\* the wait group's owner
ShutdownStep ==
    \/ ShutdownBegin /\ BulkFrame
    \/ ShutdownTick /\ BulkFrame
    \/ ShutdownEnd /\ BulkFrame
    \/ WaiterWait /\ BulkFrame
    \/ WaiterExit /\ BulkFrame

BulkNext ==
    \/ \E client \in BOOLEAN : StartBulkIndexService(client) /\ BulkFrame
    \/ BulkAdd /\ BulkFrame
    \/ BulkFlush /\ BulkFrame
    \/ StoreUnreachable /\ BulkFrame
    \/ BulkCancel /\ BulkFrame
    \/ ShutdownStep

InitBulk == BulkInit /\ TrackerInit /\ QueryParked /\ StoreParked /\ ScanParked /\ CallParked

\* the shutdown goroutine is scheduled and time passes
SpecBulk == InitBulk /\ [][BulkNext]_vars /\ WF_vars(ShutdownStep)

(***************************************************************************)
(* The properties of the retried writes and of the hunt dispatcher         *)
(***************************************************************************)
\* the error a caller is to see for the store's answer to the last request
\* (none: no request was made, the client is not set)
ExpectedError(answer) ==
    CASE answer = "ok" -> "nil"
      [] answer = "none" -> "NotInitialized"
      [] answer = "store_error" -> "ElasticError"
      [] answer = "bad_error_body" -> "ParseError"
      [] answer \in {"transport_error", "response_lost"} -> "TransportError"

RetriedCallReturned == last.op \in {"SetHunt", "UpdateIndex"} /\ last.attempts > 0

\* C8: a retried write (SetElasticIndex under SetHunt, UpdateIndex) makes at most
\* MaxAttempts attempts; when the first k-1 attempts fail and the k-th succeeds
\* it returns nil; when its last attempt fails it returns that attempt's error,
\* never nil, and a failure of a request is given up only after MaxAttempts
\* attempts.
C8_RetryReportsLastAttempt ==
    RetriedCallReturned =>
        /\ last.attempts <= MaxAttempts
        /\ last.answer = "ok" => (last.err = "nil" /\ last.failed = last.attempts - 1)
        /\ last.answer # "ok" => (last.err # "nil" /\ last.failed = last.attempts)
        /\ last.err = ExpectedError(last.answer)
        /\ last.answer \notin {"ok", "none"} => last.attempts = MaxAttempts

\* an UpdateIndex that failed MaxAttempts - 1 times and then succeeded
C8_Witness ==
    /\ RetriedCallReturned
    /\ last.op = "UpdateIndex"
    /\ last.err = "nil"
    /\ last.attempts = MaxAttempts
    /\ last.failed = MaxAttempts - 1

\* the three counters GetHunt is to return for hunt h
CountersOf(h) ==
    IF h.stats = NoStats THEN <<0, 0, 0>>
    ELSE <<h.stats.scheduled, h.stats.results, h.stats.errors>>

\* C9: when the last write of a document was a successful SetHunt(h) and the
\* store answers the read, GetHunt(h.HuntId) returns found = true and a hunt
\* with the state, the three counters (zero when h had no stats) and the payload
\* fields of h.
C9_ReadYourWrites ==
    (/\ last.op = "GetHunt"
     /\ last.answer = "ok"
     /\ written[last.id] # NoHunt)
    => /\ last.found
       /\ last.hunt # NoHunt
       /\ last.hunt.state = written[last.id].state
       /\ CountersOf(last.hunt) = CountersOf(written[last.id])
       /\ last.hunt.hunt_id = written[last.id].hunt_id
       /\ last.hunt.creator = written[last.id].creator

\* GetHunt found an ARCHIVED hunt that was set without stats, over an earlier
\* document of the same id
C9_Witness ==
    /\ last.op = "GetHunt"
    /\ last.found
    /\ written[last.id] # NoHunt
    /\ written[last.id].stats = NoStats
    /\ written[last.id].state = "ARCHIVED"
    /\ last.hunt.stats.downloads = 1

\* C10: GetHunt never fails otherwise than by found = false: it does not panic,
\* and an absent document (an id never set), a store error, a missing client
\* and a document that is no hunt entry each give (nil, false).
C10_GetHuntFailsAsNotFound ==
    last.op = "GetHunt" =>
        /\ ~last.panic
        /\ last.seen = "none" => ~last.found
        /\ last.answer # "ok" => ~last.found
        /\ last.seen # "entry" => ~last.found
        /\ ~last.found => last.hunt = NoHunt
        /\ (last.seen = "entry" /\ last.answer = "ok") => last.found

\* GetHunt on the id nothing was ever written under, answered by the store
C10_Witness ==
    /\ last.op = "GetHunt"
    /\ last.id = "H.2"
    /\ last.answer = "ok"
    /\ ~last.found
    /\ store["H.1"].kind = "entry"

\* C11: a SetHunt of a hunt whose id is empty returns an error in that same
\* step, starts no write call and leaves every stored document as it was.
C11_EmptyIdRejectedWithoutWrite ==
    [][\A h \in Hunts :
          (h.hunt_id = "" /\ SetHunt(h)) =>
              /\ last'.op = "SetHunt"
              /\ last'.err = "InvalidHunt"
              /\ last'.attempts = 0
              /\ wcall' = Idle
              /\ store' = store
              /\ written' = written]_vars

\* a SetHunt with an empty id was rejected while a hunt entry is stored
C11_Witness ==
    /\ last.op = "SetHunt"
    /\ last.id = ""
    /\ last.err = "InvalidHunt"
    /\ store["H.1"].kind = "entry"

\* the step in which a SetHunt call returns
SetHuntReturns == wcall # Idle /\ wcall.op = "SetHunt" /\ wcall' = Idle

\* C17: whatever state is stored, a SetHunt whose request the store answers
\* with success returns nil and leaves the hunt's state stored; no step of the
\* dispatcher or of the store client removes a stored document.
C17_AnyStateOverwritesAnyState ==
    [][/\ (SetHuntReturns /\ last'.answer = "ok") =>
              /\ last'.err = "nil"
              /\ StoredState(store'[wcall.id]) = wcall.hunt.state
       /\ \A id \in DocIds : store[id] # NoDoc => store'[id] # NoDoc]_vars

\* a SetHunt with state RUNNING succeeded over a stored ARCHIVED entry
C17_Witness ==
    /\ last.op = "SetHunt"
    /\ last.err = "nil"
    /\ last.before = "ARCHIVED"
    /\ StoredState(store[last.id]) = "RUNNING"

(***************************************************************************)
(* The properties of ApplyFuncOnHuntsWithOptions                           *)
(***************************************************************************)
ScanReturned == scan.st = "returned"
\* the scan got a stream from QueryChan
ScanStreamed == qpc \notin {"call", "failed"}

\* the positions in received of the hits handled so far
Handled == IF scan.st = "got" THEN Len(received) - 1 ELSE Len(received)

\* the hit is a hunt entry whose payload decodes
Decodable(i) ==
    /\ UnmarshalHuntEntry(kinds[received[i].id]).err = "nil"
    /\ HuntEntryGetHunt(UnmarshalHuntEntry(kinds[received[i].id]).entry).err = "nil"

\* the hit does not unmarshal as a HuntEntry
Mistyped(i) == UnmarshalHuntEntry(kinds[received[i].id]).err # "nil"

RECURSIVE DecodablePositions(_)
DecodablePositions(n) ==
    IF n = 0 THEN <<>>
    ELSE IF Decodable(n) THEN Append(DecodablePositions(n - 1), n)
    ELSE DecodablePositions(n - 1)

VisitedPositions == [i \in 1 .. Len(visited) |-> visited[i].hit]

CbReturnedError == \E i \in 1 .. Len(visited) : visited[i].ret # "nil"

\* cb's error ends the scan: it is the error of the last invocation, it is
\* what the scan returns, and the scan reads no further hit
CbErrorStopsScan ==
    /\ \A i \in 1 .. Len(visited) - 1 : visited[i].ret = "nil"
    /\ CbReturnedError =>
          /\ ScanReturned
          /\ scan.err = visited[Len(visited)].ret
          /\ visited[Len(visited)].hit = Len(received)

\* C12 as stated: cb's first error stops the scan and is returned unchanged;
\* when cb never returns an error the scan over a stream returns nil, having
\* invoked cb once for each decodable hunt of the stream, in stream order.
C12_VisitorErrorStopsElseAllVisited ==
    /\ CbErrorStopsScan
    /\ (ScanReturned /\ ScanStreamed /\ ~CbReturnedError) =>
          /\ scan.err = "nil"
          /\ VisitedPositions = DecodablePositions(Len(received))

\* C12 amended: cb's first error stops the scan and is returned unchanged; a
\* hit that does not unmarshal as a HuntEntry stops the scan too, with the
\* error of json.Unmarshal; cb is invoked once for each decodable hunt received
\* up to there, in stream order, and the scan returns nil exactly when the
\* stream closed with neither of the two having happened.
C12_VisitorOrUnmarshalErrorStops ==
    /\ CbErrorStopsScan
    /\ VisitedPositions = DecodablePositions(Handled)
    /\ \A i \in 1 .. Handled : Mistyped(i) => (ScanReturned /\ i = Len(received))
    /\ (ScanReturned /\ ScanStreamed) =>
          /\ (Len(received) > 0 /\ Mistyped(Len(received))) => scan.err = "ParseError"
          /\ scan.err = "nil" <=>
                (/\ qpc = "closed"
                 /\ ~CbReturnedError
                 /\ ~(Len(received) > 0 /\ Mistyped(Len(received))))

\* cb returned an error on the second decodable hunt, after a hit whose payload
\* does not decode was skipped, and the scan returned it
C12_Witness ==
    /\ ScanReturned
    /\ Len(visited) = 2
    /\ visited[2].ret = "cb_error_b"
    /\ scan.err = "cb_error_b"
    /\ Len(received) = 3
    /\ Len(dataset) = 3

\* C13, for the page requests of the paginated stream: when the store answered
\* a page request of the scan's stream with an error, the scan's caller gets an
\* error.
C13_StoreErrorReachesScanCaller ==
    (ScanReturned /\ storeFailed) => scan.err # "nil"

\* the first page request failing is reported: QueryChan returns the error
FirstPageErrorReachesScanCaller ==
    (ScanReturned /\ qpc = "failed") => scan.err = "QueryError"

\* C25: once ApplyFuncOnHuntsWithOptions has returned after it started
\* QueryChan's goroutine, for a visitor error, a decode error or the end of the
\* stream, the goroutine terminates: it closes the channel and is not left on a
\* send that nobody receives
C25_ProducerTerminatesAfterScanReturns ==
    (ScanReturned /\ ScanStreamed) ~> (qpc = "closed" /\ nclose = 1)

\* the visitor's error made the scan return while the goroutine offers the
\* next hit of the page
C25_Witness ==
    /\ ScanReturned
    /\ scan.err \in CbErrors
    /\ qpc = "select"
    /\ idx <= Len(part)
    /\ consumer = "stopped"

(***************************************************************************)
(* The properties of the store client's functions                          *)
(***************************************************************************)
\* C14: GetElasticRecord without a client returns NotInitialized and makes no
\* request; with one it returns the document's body when the store reports
\* success, os.ErrNotExist exactly when the store's error response carries
\* found: false, the error made of the response for every other error response
\* whose body parses, and some other error than these when it does not.
C14_GetElasticRecordOutcomes ==
    called.op = "GetElasticRecord" =>
        /\ ~called.client => (called.result.err = "NotInitialized" /\ ~called.result.sent)
        /\ called.client =>
              /\ called.result.sent
              /\ (called.response.outcome = "success" /\ called.response.parses) =>
                    (called.result.err = "nil" /\ called.result.source = called.response.source)
              /\ called.result.err = "ErrNotExist" <=>
                    (called.response.outcome = "error" /\ called.response.found = "false")
              /\ (called.response.outcome = "error" /\ called.response.found # "false") =>
                    /\ called.result.err \notin {"nil", "ErrNotExist", "NotInitialized"}
                    /\ called.response.parses => called.result.err = "ElasticError"
              /\ called.result.err # "nil" => called.result.source = NoDoc

\* an error response whose found field is true: a store error, not NotFound
C14_Witness ==
    /\ called.op = "GetElasticRecord"
    /\ called.client
    /\ called.response.outcome = "error"
    /\ called.response.found = "true"
    /\ called.result.err = "ElasticError"

\* C15: for every logical index, two different tenant ids get different
\* physical indexes.
C15_TenantsNeverShareIndex ==
    (called.op = "GetIndex" /\ called.t1 # called.t2) => called.r1 # called.r2

\* the tenant GetIndex takes an id for: root for "", lower case for upper
FoldedOrg(org_id) == IF org_id = Root THEN <<>> ELSE ToLower(org_id)

\* tenant ids that differ after folding get different physical indexes
FoldedTenantsNeverShareIndex ==
    (called.op = "GetIndex" /\ FoldedOrg(called.t1) # FoldedOrg(called.t2)) =>
        called.r1 # called.r2

\* the hits of the window of the ListHunts call made
CalledWindow == Window(called.docs, called.offset, called.count)

\* C16: the items ListHunts returns hold no ARCHIVED hunt and, under a user
\* filter, only hunts of that creator; they are the decoded hits of a
\* sub-sequence of the window's hits, so no more than count.
C16_ListHuntsFiltersWindow ==
    (called.op = "ListHunts" /\ called.result.err = "nil") =>
        LET items == called.result.items
        IN /\ Len(items) <= called.count
           /\ \A i \in 1 .. Len(items) :
                 /\ items[i].hunt.state # "ARCHIVED"
                 /\ called.user_filter # "" => items[i].hunt.creator = called.user_filter
                 /\ items[i].pos \in 1 .. Len(CalledWindow)
                 /\ ListDecodes(CalledWindow[items[i].pos])
                 /\ items[i].hunt = ListDecoded(CalledWindow[items[i].pos])
           /\ \A i \in 1 .. Len(items) - 1 : items[i].pos < items[i + 1].pos

\* a window of three hits, an archived hunt of the filter's creator among them,
\* of which one is returned
C16_Witness ==
    /\ called.op = "ListHunts"
    /\ called.result.err = "nil"
    /\ called.user_filter = "alice"
    /\ Len(CalledWindow) = 3
    /\ Len(called.result.items) = 1
    /\ called.result.items[1].pos = 3
    /\ \E i \in 1 .. 2 :
          /\ ListDecodes(CalledWindow[i])
          /\ ListDecoded(CalledWindow[i]).state = "ARCHIVED"
          /\ ListDecoded(CalledWindow[i]).creator = "alice"

\* C18: ListIndexes returns the names the cluster reports: one element for
\* each reported index, each the name reported at that place, and no empty
\* string.
C18_ListIndexesReturnsReportedNames ==
    (called.op = "ListIndexes" /\ called.result.err = "nil") =>
        /\ Len(called.result.results) = Len(called.indexes)
        /\ \A i \in 1 .. Len(called.result.results) :
              /\ called.result.results[i] # ""
              /\ i <= Len(called.indexes) => called.result.results[i] = called.indexes[i]

\* every reported name is among the results, in the reported order, after as
\* many empty strings
ListIndexesReturnsNamesAfterEmptyStrings ==
    (called.op = "ListIndexes" /\ called.result.err = "nil") =>
        /\ Len(called.result.results) = 2 * Len(called.indexes)
        /\ \A i \in 1 .. Len(called.indexes) :
              /\ called.result.results[i] = ""
              /\ called.result.results[Len(called.indexes) + i] = called.indexes[i]

\* a call of a store operation has returned or panicked
StoreOpCalled == called.op = "StoreOp"

\* C21: with the client handle never set, SetElasticIndex and UpdateIndex fail
\* with NotInitialized after a single attempt, and every other operation returns
\* NotInitialized; no operation sends a request to the store
C21_NoClientIsNotInitialized ==
    (StoreOpCalled /\ ~called.client) =>
        /\ ~called.result.panic
        /\ called.result.err = "NotInitialized"
        /\ called.result.attempts = 1
        /\ called.result.requests = <<>>

\* the same of every operation but SetElasticIndexAsync, which panics
NoClientIsNotInitializedButAsync ==
    (StoreOpCalled /\ ~called.client) =>
        /\ called.result.requests = <<>>
        /\ called.result.attempts = 1
        /\ IF called.fn = "SetElasticIndexAsync"
           THEN called.result.panic
           ELSE ~called.result.panic /\ called.result.err = "NotInitialized"

\* the call sent some request more than once
Resent(requests) ==
    \E i \in 1 .. Len(requests) : \E j \in 1 .. Len(requests) :
        i < j /\ requests[i] = requests[j]

\* C22: one call of UpdateByQuery or DeleteByQuery sends at most one request,
\* whatever the store answers, and a call that sends a request of its own a
\* second time is a call of SetElasticIndex or of UpdateIndex
C22_OnlySingleDocumentWritesResend ==
    StoreOpCalled =>
        /\ called.fn \in {"UpdateByQuery", "DeleteByQuery"} =>
              /\ Len(called.result.requests) <= 1
              /\ called.result.attempts = 1
        /\ Resent(called.result.requests) =>
              called.fn \in {"SetElasticIndex", "UpdateIndex"}

\* UpdateByQuery returned the store's error after its one request
C22_Witness ==
    /\ StoreOpCalled
    /\ called.fn = "UpdateByQuery"
    /\ called.client
    /\ called.answers[1] = "store_error"
    /\ called.result.err = makeElasticError
    /\ called.result.requests = <<"update_by_query">>

\* C23: for a message whose AuthState is UNAUTHENTICATED, Process invokes no
\* handler but HandleEnrolment, whatever the other fields of the message are
C23_UnauthenticatedOnlyEnrols ==
    (called.op = "Process" /\ called.message.AuthState = "UNAUTHENTICATED") =>
        /\ Len(called.result.invoked) <= 1
        /\ \A i \in 1 .. Len(called.result.invoked) :
              called.result.invoked[i] = "HandleEnrolment"
        /\ (called.org_err = "nil" /\ called.config_err = "nil") =>
              called.result = Routed(<<"HandleEnrolment">>, called.handler_err)

\* an unauthenticated message of the monitoring flow that carries a log
\* message, a response, a status, a check-in and a file buffer was enrolled
C23_Witness ==
    /\ called.op = "Process"
    /\ called.message = [AuthState |-> "UNAUTHENTICATED",
                         SessionId |-> MONITORING_WELL_KNOWN_FLOW, LogMessage |-> TRUE,
                         VQLResponse |-> TRUE, Status |-> TRUE, ForemanCheckin |-> TRUE,
                         FileBuffer |-> TRUE]
    /\ called.result.invoked = <<"HandleEnrolment">>

(***************************************************************************)
(* The properties of the bulk indexer's shutdown                           *)
(***************************************************************************)
\* C19: once the service context is cancelled the shutdown goroutine closes
\* the indexer with a context of its own, made of the background context with
\* the full timeout ahead, and then signals the wait group: the shutdown
\* completes and the wait on the group returns, whether or not the outstanding
\* batches can be flushed.
C19_ShutdownCompletes ==
    /\ [][ShutdownBegin =>
             (subctx'.parent = "background" /\ subctx'.left = ShutdownTimeout)]_vars
    /\ [](bpc = "done" => wgcount = 0)
    /\ (bctx /\ bpc = "wait") ~> (bpc = "done" /\ wgcount = 0 /\ waiter = "exited")

\* the shutdown completed with batches the store never took
C19_Witness ==
    /\ bpc = "done"
    /\ waiter = "exited"
    /\ wgcount = 0
    /\ pending > 0
    /\ ~flushable
    /\ subctx.left = 0

(***************************************************************************)
(* QueryChan's properties                                                  *)
(***************************************************************************)
IsPrefix(a, b) == Len(a) <= Len(b) /\ \A i \in 1 .. Len(a) : a[i] = b[i]

Ceil(n, d) == (n + d - 1) \div d

Started == qpc \notin {"call", "failed"}
Closed == qpc = "closed"

\* what the stream delivers when nothing cancels it and no request fails
RECURSIVE StreamFrom(_, _)
StreamFrom(has_after, after) ==
    LET pg == StorePage(dataset, page_size, has_after, after)
    IN IF Len(pg) = 0 THEN <<>>
       ELSE IF HasSortField(sort_field, pg[Len(pg)])
       THEN pg \o StreamFrom(TRUE, pg[Len(pg)].key)
       ELSE pg

FullResult == StreamFrom(FALSE, NoKey)

EveryDocHasSortField == \A i \in 1 .. Len(dataset) : dataset[i].key # NoKey

DistinctSortValues ==
    \A i, j \in 1 .. Len(dataset) : i # j => dataset[i].key # dataset[j].key

\* C5: over a static dataset of N documents that all carry the sort field, with
\* page size P < N, no cancellation and no failing request, a consumer that
\* reads until the channel closes has received exactly the N documents, each
\* once, in ascending order, over ceil(N/P) non-empty pages.
C5_AllDocumentsDelivered ==
    (/\ Closed
     /\ consumer = "reading"
     /\ ~cancelled
     /\ ~storeFailed
     /\ sort_field # NoSortField
     /\ EveryDocHasSortField
     /\ page_size < Len(dataset))
    => /\ received = dataset
       /\ npages = Ceil(Len(dataset), page_size)

\* the same statement for a dataset whose sort values are pairwise distinct:
\* this one the code meets
AllDocumentsDeliveredWhenDistinct ==
    DistinctSortValues => C5_AllDocumentsDelivered

\* C6: the hits received are always a prefix of the uncancelled result, nothing
\* is received once the producer has returned, and after the stream has started
\* a cancellation leads to the channel being closed, whether or not the consumer
\* still reads.
C6_CancelYieldsPrefixAndCloses ==
    /\ [](IsPrefix(received, FullResult))
    /\ [][Closed => received' = received]_vars
    /\ (Started /\ cancelled) ~> Closed

\* the consumer stopped reading in the middle of the result, the context was
\* cancelled, and the producer returned
C6_Witness ==
    /\ Closed
    /\ cancelled
    /\ consumer = "stopped"
    /\ Len(received) > 0
    /\ Len(received) < Len(FullResult)

\* C7: the channel is closed at most once, and exactly once when the producer has
\* returned; with a consumer that keeps reading, an empty page, a cancellation
\* and a last hit without the sort field each lead to the channel being closed,
\* and every started stream terminates.
C7_StreamTerminatesClosedOnce ==
    /\ [](nclose <= 1 /\ (Closed <=> nclose = 1))
    /\ (qpc = "loop" /\ Len(part) = 0) ~> Closed
    /\ (Started /\ cancelled) ~> Closed
    /\ (qpc = "select" /\ idx = Len(part) /\ ~HasSortField(sort_field, part[idx])) ~> Closed
    /\ Started ~> Closed

\* the whole dataset was delivered over several pages and an empty page then
\* closed the channel
C7_Witness ==
    /\ Closed
    /\ nclose = 1
    /\ ~cancelled
    /\ ~storeFailed
    /\ npages >= 2
    /\ Len(part) = 0
    /\ received = dataset

\* the last n hits the consumer received, none if it received fewer
LastReceived(n) ==
    IF n > Len(received) THEN <<>>
    ELSE SubSeq(received, Len(received) - n + 1, Len(received))

\* the producer holds no undelivered hit but the one it offers: the hits of the
\* page before it were received
OnlyOfferedHitUndelivered ==
    qpc = "select" => LastReceived(idx - 1) = SubSeq(part, 1, idx - 1)

\* a page request after the first is made when the consumer has received every
\* hit of the page before
NextPageAfterWholePageReceived ==
    ProducerNextPage => (Len(part) > 0 /\ LastReceived(Len(part)) = part)

\* C20 as stated: the producer holds at most one undelivered hit, the request
\* for the next page is made only after the consumer received every hit of the
\* page, and no page request is made once the consumer has stopped reading
\* without cancelling.
C20_BackpressureNoRequestAfterStop ==
    /\ []OnlyOfferedHitUndelivered
    /\ [][NextPageAfterWholePageReceived]_vars
    /\ [][(consumer = "stopped" /\ ~cancelled) => ~ProducerNextPage]_vars

\* C20 amended: the producer holds at most one undelivered hit and requests the
\* next page only after the consumer received every hit of the page; a
\* consumer that stopped reading therefore causes no page request, except the
\* one for the page after a page it had received completely when it stopped:
\* while the consumer is stopped the producer never gets to another request.
C20_BackpressureOneRequestAfterStop ==
    /\ []OnlyOfferedHitUndelivered
    /\ [][NextPageAfterWholePageReceived]_vars
    /\ []((consumer = "stopped" /\ ~cancelled /\ qpc = "query") =>
             (Len(part) > 0 /\ LastReceived(Len(part)) = part))
    /\ [][(consumer = "stopped" /\ ~cancelled /\ qpc # "query") => qpc' # "query"]_vars

\* the consumer stopped after the whole first page; the producer requested the
\* second page and is blocked on its first hit
C20_Witness ==
    /\ consumer = "stopped"
    /\ ~cancelled
    /\ qpc = "select"
    /\ idx = 1
    /\ npages = 2
    /\ Len(received) = page_size
    /\ page_size = 2

\* the page the first request returns
FirstPage == StorePage(dataset, page_size, FALSE, NoKey)

\* C26: called with NoSortField, QueryChan delivers hits of the first page
\* only, at most page_size of them, never makes a second page request, and
\* closes the channel; uncancelled, it has then delivered the whole first page,
\* however many more documents match
C26_NoSortFieldFirstPageOnly ==
    /\ [](sort_field = NoSortField =>
             /\ IsPrefix(received, FirstPage)
             /\ Len(received) <= page_size
             /\ qpc # "query"
             /\ npages <= 1)
    /\ []((sort_field = NoSortField /\ Closed /\ ~cancelled) => received = FirstPage)
    /\ (sort_field = NoSortField /\ Started) ~> Closed

\* more documents than a page match, each with a value to sort on, and the
\* channel was closed after the page_size hits of the first page
C26_Witness ==
    /\ sort_field = NoSortField
    /\ Closed
    /\ ~cancelled
    /\ Len(dataset) > page_size
    /\ \A i \in 1 .. Len(dataset) : dataset[i].key # NoKey
    /\ Len(received) = page_size
    /\ received = FirstPage

(***************************************************************************)
(* The session tracker's properties                                        *)
(***************************************************************************)
StrictlyIncreasing(seq) ==
    \A i, j \in 1 .. Len(seq) : i < j => seq[i] < seq[j]

\* the count of the session's entry in the map
CountOf(tbl, hp, k) == hp[tbl[k]].count

\* C1 as stated: for every session id the rows ReturnTracker returned are
\* strictly increasing in lock order, so none is returned twice, whatever the
\* interleaving of GetTracker and ReturnTracker.
C1_RowsStrictlyIncreasing ==
    \A k \in Sessions : StrictlyIncreasing(rows[k])

\* C1 amended: for every session id none of whose entries was deleted by a
\* sweep, the rows ReturnTracker returned are strictly increasing in lock order
\* and none is returned twice, whatever the interleaving of the callers.
C1_RowsStrictlyIncreasingWhileLive ==
    \A k \in Sessions : ~evicted[k] => StrictlyIncreasing(rows[k])

\* two callers hold the tracker of a session that was never evicted and has
\* already handed out MaxCount - 1 rows
C1_Witness ==
    \E k \in Sessions :
        /\ ~evicted[k]
        /\ Len(rows[k]) >= MaxCount - 1
        /\ \A c \in Callers : held[c] # NoTracker /\ held[c] = session_tracker[k]

\* the rows the creator of the session's entry got since it created it
SoloRows(k) == SubSeq(rows[k], soloStart[k] + 1, Len(rows[k]))

\* C2: a caller that creates the entry of a session id that had none and then
\* performs n GetTracker-then-ReturnTracker pairs on it, nobody else using the
\* session and no sweep deleting it meanwhile, gets exactly 0, 1, ..., n-1.
C2_FreshSessionCountsFromZero ==
    \A k \in Sessions :
        soloOwner[k] # NoCaller =>
            SoloRows(k) = [i \in 1 .. Len(SoloRows(k)) |-> i - 1]

\* a single caller completed MaxCount pairs on an entry it created, and that
\* entry was created after an earlier one of the same session id was evicted
C2_Witness ==
    \E k \in Sessions :
        /\ soloOwner[k] # NoCaller
        /\ Len(SoloRows(k)) = MaxCount
        /\ held[soloOwner[k]] = NoTracker

\* C3: a GetTracker or ReturnTracker on session id a leaves every tracker of
\* every other session id b with its count, leaves the rows returned for b
\* as they were, and changes b's map entry at most by evicting it.
C3_SessionsIndependent ==
    [][\A c \in Callers : \A a \in Sessions :
          (GetTracker(c, a) \/ (ReturnTracker(c) /\ heap[held[c]].session_id = a))
          => \A b \in Sessions \ {a} :
                /\ rows'[b] = rows[b]
                /\ session_tracker'[b] \in {session_tracker[b], NoTracker}
                /\ \A t \in Objects :
                      heap'[t].session_id = b =>
                          /\ heap[t].session_id = b
                          /\ heap'[t].count = heap[t].count]_vars

\* both sessions have handed out rows, interleaved, and both are in the map
C3_Witness ==
    /\ \A k \in Sessions : Len(rows[k]) >= 2 /\ session_tracker[k] # NoTracker
    /\ \E c \in Callers : held[c] # NoTracker

\* C4: after GetTracker(a) the map holds no entry last accessed more than one
\* hour before the call, still holds every entry that was last accessed within
\* the hour, and holds the entry of a with its access time refreshed.
C4_SweepKeepsFreshDropsStale ==
    [][\A c \in Callers : \A a \in Sessions :
          GetTracker(c, a) =>
              /\ \A k \in Sessions :
                    session_tracker'[k] # NoTracker =>
                        heap'[session_tracker'[k]].age >= now - Hour
              /\ \A k \in Sessions :
                    (session_tracker[k] # NoTracker
                        /\ heap[session_tracker[k]].age >= now - Hour)
                    => session_tracker'[k] = session_tracker[k]
              /\ session_tracker'[a] # NoTracker
              /\ heap'[session_tracker'[a]].age = now
              /\ held'[c] = session_tracker'[a]]_vars

\* a sweep deleted the entry of one session and kept the entry of another one
\* that was last accessed exactly one hour before
C4_Witness ==
    \E k, j \in Sessions :
        /\ evicted[k] /\ session_tracker[k] = NoTracker
        /\ session_tracker[j] # NoTracker
        /\ \E c \in Callers : held[c] # NoTracker /\ heap[held[c]].age = now

\* the session has an entry in the table
InTable(tbl, k) == tbl[k] # NoTracker

\* C24: across every step, the count of a session id that has an entry in the
\* table before and after the step is after the step at least what it was
\* before, a ReturnTracker of a tracker obtained before its entry was evicted
\* and created again included
C24_TableCountNeverDecreases ==
    [][\A k \in Sessions :
          (InTable(session_tracker, k) /\ InTable(session_tracker', k)) =>
              CountOf(session_tracker', heap', k) >= CountOf(session_tracker, heap, k)]_vars

\* the same for the steps that leave the entry of the session id the same
\* object: the count of one tracker never decreases
TableCountNeverDecreasesOfSameEntry ==
    [][\A k \in Sessions :
          (InTable(session_tracker, k) /\ session_tracker'[k] = session_tracker[k]) =>
              CountOf(session_tracker', heap', k) >= CountOf(session_tracker, heap, k)]_vars

====
